---- MODULE Spec2Model ----
(***************************************************************************)
(* Lead discovery and qualification pipeline of LeadReplies:               *)
(*   server/background_service.py  (LeadScrapingService, run_service)      *)
(*   server/deepseek_analyzer.py   (DeepSeekAnalyzer)                      *)
(*   server/database.py            (Database: global_leads, business_leads)*)
(* Strings are sequences of one-character strings, so that lower() and the *)
(* substring test `kw in text` are computed and not assumed.               *)
(***************************************************************************)
EXTENDS Integers, Sequences, FiniteSets, TLC

VARIABLES
    keywords,        \* table keywords: sequence of rows [business_id, keyword]
    api_key,         \* DeepSeekAnalyzer.api_key is set (TRUE) or None (FALSE)
    global_leads,    \* table global_leads, in insertion (id, created_at) order
    business_leads,  \* table business_leads: set of rows
    pc,              \* per process: position in run_service / run_once
    leads,           \* per process: scraped leads still to store (_scrape_reddit_leads)
    bi,              \* per process: index into businesses (_process_all_businesses)
    matching,        \* per process: matching_leads not yet put in a batch
    analyzed,        \* per process: analyzed_leads the save loop has not yet visited
    qualified,       \* history: (business, lead) pairs the analyzer has answered for
    cyc,             \* history, per process, of the cycle in progress
    call,            \* input of the analyzer call under check (AnalyzerSpec)
    ret              \* its return value (AnalyzerSpec)

vars == <<keywords, api_key, global_leads, business_leads, pc, leads, bi,
          matching, analyzed, qualified, cyc, call, ret>>

(***************************************************************************)
(* Bounds of the model.                                                    *)
(***************************************************************************)
MaxArrayLen == 2     \* longest JSON array the LLM answers with
MaxJunkLen == 3      \* longest free-form (possibly malformed) LLM answer

(***************************************************************************)
(* Program constants.                                                      *)
(***************************************************************************)
Threshold == 60      \* background_service.py:301  if ai_score >= 60
batch_size == 5      \* background_service.py:263
NoKeyQualifies == Threshold  \* the fallback probability at the threshold
NoKeyProbability == 50   \* deepseek_analyzer.py:236
MaxTries == 2        \* background_service.py:273  for retry in range(2)

(***************************************************************************)
(* Strings.                                                                *)
(***************************************************************************)
LowerChar(c) ==
    CASE c = "A" -> "a" [] c = "C" -> "c" [] c = "I" -> "i" [] c = "M" -> "m"
      [] c = "P" -> "p" [] c = "R" -> "r" [] c = "S" -> "s" [] OTHER -> c

\* str.lower()
lower(s) == [i \in 1..Len(s) |-> LowerChar(s[i])]

\* Python's  kw in text
Contains(text, kw) ==
    \E i \in 0..(Len(text) - Len(kw)) : SubSeq(text, i + 1, i + Len(kw)) = kw

Str_CRM == <<"C", "R", "M">>
Str_Crm == <<"C", "r", "m">>
Str_startup == <<"s", "t", "a", "r", "t", "u", "p">>
Str_api == <<"a", "p", "i">>

(***************************************************************************)
(* The outside world: the posts Reddit can return, the tenants.            *)
(***************************************************************************)
Posts ==
    { [id |-> "p1", title |-> <<"S", "t", "a", "r", "t", "u", "p">>, content |-> <<>>],
      [id |-> "p2", title |-> <<"a", " ", "c", "r", "m">>, content |-> <<>>],
      [id |-> "p3", title |-> <<"n", "o">>, content |-> <<"A", "P", "I">>] }

\* the posts in the order of their relevance (calculate_relevance, equal
\* upvotes and comments): 20 for p1, 15 for p2, 9 for p3
PostOrder == <<"p1", "p2", "p3">>

\* SELECT id, name, description FROM businesses
businesses == <<1, 2, 3>>

KeywordTables ==
    { << [business_id |-> 1, keyword |-> Str_CRM],
         [business_id |-> 1, keyword |-> Str_startup],
         [business_id |-> 3, keyword |-> Str_api],
         [business_id |-> 3, keyword |-> Str_Crm] >> }

Proc == {"service", "once"}

(***************************************************************************)
(* DeepSeekAnalyzer.  An LLM answer is a sequence of tokens: "lb" is '[',  *)
(* "rb" is ']', "txt" any other text, "obj" a JSON object and "num" a JSON *)
(* value that is no object; the commas of an array are left out.           *)
(***************************************************************************)
Tok(t) == [t |-> t, ptype |-> "absent", probability |-> 0, has_analysis |-> FALSE]

\* {"probability": p, "analysis": "..."}, either key possibly absent,
\* "probability" possibly null
Obj(ptype, p, ha) == [t |-> "obj", ptype |-> ptype, probability |-> p, has_analysis |-> ha]

Probs == {30, 59, 60, 85}

Elements ==
    {Obj("num", p, TRUE) : p \in Probs}
      \cup {Obj("num", 85, FALSE), Obj("absent", 0, TRUE), Obj("null", 0, TRUE), Tok("num")}

RECURSIVE SeqsUpTo(_, _)
SeqsUpTo(S, n) ==
    IF n = 0 THEN {<<>>}
    ELSE LET shorter == SeqsUpTo(S, n - 1)
         IN  shorter \cup {Append(q, x) : q \in shorter, x \in S}

\* answers that hold a JSON array, bare or inside other text
ArrayContents ==
    LET arrays == {<<Tok("lb")>> \o q \o <<Tok("rb")>> : q \in SeqsUpTo(Elements, MaxArrayLen)}
    IN  arrays \cup {<<Tok("txt")>> \o a \o <<Tok("txt")>> : a \in arrays}

\* any short answer, well formed or not
JunkContents == SeqsUpTo({Tok("lb"), Tok("rb"), Tok("txt"), Obj("num", 85, TRUE)}, MaxJunkLen)

Contents == ArrayContents \cup JunkContents

\* what requests.post does: a timeout, another transport error, a status
\* other than 200, or 200 with the message content
Failures == {[kind |-> k, content |-> <<>>] : k \in {"timeout", "error", "status"}}

LLMOutcomes == Failures \cup {[kind |-> "ok", content |-> c] : c \in Contents}

\* the answers the service is run against: the arrays of numeric, null and
\* non-object elements, and the answers without an array
ServiceElements ==
    {Obj("num", p, TRUE) : p \in {Threshold - 1, Threshold, 85}}
      \cup {Obj("null", 0, TRUE), Tok("num")}

ServiceOutcomes ==
    Failures \cup
    {[kind |-> "ok", content |-> <<Tok("lb")>> \o q \o <<Tok("rb")>>] :
        q \in SeqsUpTo(ServiceElements, MaxArrayLen)} \cup
    {[kind |-> "ok", content |-> c] : c \in {<<>>, <<Tok("txt")>>, <<Tok("lb"), Tok("txt")>>}}

None == [is_none |-> TRUE, text |-> <<>>]
Some(text) == [is_none |-> FALSE, text |-> text]

\* DeepSeekAnalyzer._make_request
_make_request(key, outcome) ==
    IF ~key THEN None
    ELSE IF outcome.kind = "ok" THEN Some(outcome.content)
    ELSE None       \* status != 200, or except Exception: return None

\* str.find / str.rfind of one token, 0-based, -1 when absent
find(s, t) ==
    IF \E i \in 1..Len(s) : s[i].t = t
    THEN (CHOOSE i \in 1..Len(s) : s[i].t = t /\ \A j \in 1..(i - 1) : s[j].t # t) - 1
    ELSE -1

rfind(s, t) ==
    IF \E i \in 1..Len(s) : s[i].t = t
    THEN (CHOOSE i \in 1..Len(s) : s[i].t = t /\ \A j \in (i + 1)..Len(s) : s[j].t # t) - 1
    ELSE -1

\* s[a:b] of Python, for 0 <= a, 0 <= b
Slice(s, a, b) == SubSeq(s, a + 1, IF b > Len(s) THEN Len(s) ELSE b)

\* the values of a JSON array body: objects, other scalars ("num") and
\* nested arrays ("arr"); any other text makes json.loads raise
RECURSIVE ParseValues(_, _, _)
ParseValues(s, depth, acc) ==
    IF s = <<>> THEN [ok |-> depth = 0, values |-> acc]
    ELSE LET h == Head(s)
         IN  IF h.t \in {"obj", "num"}
             THEN ParseValues(Tail(s), depth, IF depth = 0 THEN Append(acc, h) ELSE acc)
             ELSE IF h.t = "lb" THEN ParseValues(Tail(s), depth + 1, acc)
             ELSE IF h.t = "rb" /\ depth > 0
             THEN ParseValues(Tail(s), depth - 1,
                              IF depth = 1 THEN Append(acc, Tok("arr")) ELSE acc)
             ELSE [ok |-> FALSE, values |-> <<>>]

\* json.loads(json_str): ok is FALSE where it raises json.JSONDecodeError
json_loads(js) ==
    IF Len(js) >= 2 /\ js[1].t = "lb" /\ js[Len(js)].t = "rb"
    THEN ParseValues(SubSeq(js, 2, Len(js) - 1), 0, <<>>)
    ELSE [ok |-> FALSE, values |-> <<>>]

Result(id, ptype, p, analysis) ==
    [id |-> id, ptype |-> ptype, probability |-> p, analysis |-> analysis]

Returned(results) == [raised |-> FALSE, exc |-> "", results |-> results]
Raised(exc) == [raised |-> TRUE, exc |-> exc, results |-> <<>>]

\* the parse failure caught nowhere
BatchFailedRaises(ls) == Raised("JSONDecodeError")

\* the fallback list of lines 315-322
BatchFailed(ls) ==
    Returned([i \in 1..Len(ls) |-> Result(ls[i], "num", 0, "Batch analysis failed")])

\* lines 285-308: position-based matching of the parsed array to the leads
MatchByPosition(ls, analyses) ==
    IF \E i \in 1..Len(ls) : i <= Len(analyses) /\ analyses[i].t # "obj"
    THEN Raised("AttributeError")       \* analysis.get on a value that is no dict
    ELSE Returned([i \in 1..Len(ls) |->
            IF i <= Len(analyses)
            THEN Result(ls[i],
                        IF analyses[i].ptype = "null" THEN "null" ELSE "num",
                        IF analyses[i].ptype = "num" THEN analyses[i].probability ELSE 0,
                        IF analyses[i].has_analysis THEN "ok" ELSE "No analysis")
            ELSE Result(ls[i], "num", 0, "Analysis not found")])

\* DeepSeekAnalyzer.batch_analyze_leads_for_business; ls are the ids of the
\* leads, outcome is what the one HTTP request of the call does
batch_analyze_leads_for_business(key, ls, outcome) ==
    IF ls = <<>> THEN Returned(<<>>)
    ELSE IF ~key
    THEN Returned([i \in 1..Len(ls) |->
            Result(ls[i], "num", NoKeyProbability, "AI analysis unavailable")])
    ELSE LET response == _make_request(key, outcome)
             text == response.text
             json_start == find(text, "lb")
             json_end == rfind(text, "rb") + 1
             json_str == Slice(text, json_start, json_end)
         IN  IF response.is_none \/ text = <<>> THEN BatchFailed(ls)
             ELSE IF json_start # -1 /\ json_end # -1
             THEN IF json_loads(json_str).ok
                  THEN MatchByPosition(ls, json_loads(json_str).values)
                  ELSE BatchFailed(ls)      \* except json.JSONDecodeError
             ELSE BatchFailed(ls)

\* number of HTTP requests one call of batch_analyze_leads_for_business issues
RequestsOfCall(key, ls) == IF ls = <<>> \/ ~key THEN 0 ELSE 1

(***************************************************************************)
(* Database (database.py).                                                 *)
(***************************************************************************)
\* Database.get_business_keywords: the rows of one business
get_business_keywords(b) == SelectSeq(keywords, LAMBDA row : row.business_id = b)

\* a global_leads table without UNIQUE(platform, platform_id)
NoGlobalLeadConflict(platform, platform_id) == FALSE

\* psycopg2.IntegrityError on UNIQUE(platform, platform_id)
GlobalLeadConflict(platform, platform_id) ==
    \E i \in 1..Len(global_leads) :
        /\ global_leads[i].platform = platform
        /\ global_leads[i].platform_id = platform_id

\* Database.add_global_lead: the table after the call and the value returned
\* (0 stands for None).  SERIAL ids are positive and never reused.
add_global_lead(platform, platform_id, title, content) ==
    IF GlobalLeadConflict(platform, platform_id)
    THEN [table |-> global_leads, lead_id |-> 0]
    ELSE [table |-> Append(global_leads,
                      [id |-> Len(global_leads) + 1, platform |-> platform,
                       platform_id |-> platform_id, title |-> title, content |-> content]),
          lead_id |-> Len(global_leads) + 1]

Reverse(s) == [i \in 1..Len(s) |-> s[Len(s) + 1 - i]]

\* NOT IN (SELECT global_lead_id FROM business_leads): no WHERE business_id
UnprocessedByAnyBusiness(b) ==
    LET processed == {row.global_lead_id : row \in business_leads}
    IN  Reverse(SelectSeq(global_leads, LAMBDA gl : gl.id \notin processed))

\* Database.get_unprocessed_leads_for_business: the global leads with no
\* business_leads row of this business, newest first
get_unprocessed_leads_for_business(b) ==
    LET processed == {row.global_lead_id : row \in {r \in business_leads : r.business_id = b}}
    IN  Reverse(SelectSeq(global_leads, LAMBDA gl : gl.id \notin processed))

\* a business_leads table without UNIQUE(business_id, global_lead_id)
NoBusinessLeadConflict(b, g) == FALSE

\* psycopg2.IntegrityError on UNIQUE(business_id, global_lead_id)
BusinessLeadConflict(b, g) ==
    \E row \in business_leads : row.business_id = b /\ row.global_lead_id = g

\* INSERT ... ON CONFLICT (business_id, global_lead_id) DO UPDATE
UpsertBusinessLead(b, g, ai_score, ai_reasoning) ==
    LET row == [business_id |-> b, global_lead_id |-> g,
                ai_score |-> ai_score, ai_reasoning |-> ai_reasoning]
        others == {r \in business_leads : r.business_id # b \/ r.global_lead_id # g}
    IN  [table |-> others \cup {row}, lead_id |-> Cardinality(others) + 1]

\* Database.add_business_lead: the table after the call and the value returned
add_business_lead(b, g, ai_score, ai_reasoning) ==
    IF BusinessLeadConflict(b, g)
    THEN [table |-> business_leads, lead_id |-> 0]
    ELSE [table |-> business_leads \cup
                      {[business_id |-> b, global_lead_id |-> g,
                        ai_score |-> ai_score, ai_reasoning |-> ai_reasoning]},
          lead_id |-> Cardinality(business_leads) + 1]

(***************************************************************************)
(* LeadScrapingService helpers (background_service.py).                    *)
(***************************************************************************)
\* SQL TRIM: leading and trailing spaces removed
RECURSIVE TrimLeft(_)
TrimLeft(s) == IF s # <<>> /\ Head(s) = " " THEN TrimLeft(Tail(s)) ELSE s

Trim(s) == Reverse(TrimLeft(Reverse(TrimLeft(s))))

Alphabet ==
    <<" ", "a", "b", "c", "d", "e", "f", "g", "h", "i", "j", "k", "l", "m", "n",
      "o", "p", "q", "r", "s", "t", "u", "v", "w", "x", "y", "z">>

CharRank(c) == IF \E i \in 1..Len(Alphabet) : Alphabet[i] = c
               THEN CHOOSE i \in 1..Len(Alphabet) : Alphabet[i] = c
               ELSE 0

\* ORDER BY clean_keyword
RECURSIVE StrLess(_, _)
StrLess(a, b) ==
    IF b = <<>> THEN FALSE
    ELSE IF a = <<>> THEN TRUE
    ELSE IF CharRank(Head(a)) # CharRank(Head(b)) THEN CharRank(Head(a)) < CharRank(Head(b))
    ELSE StrLess(Tail(a), Tail(b))

RECURSIVE SortedSeq(_)
SortedSeq(S) ==
    IF S = {} THEN <<>>
    ELSE LET least == CHOOSE x \in S : \A y \in S \ {x} : StrLess(x, y)
         IN  <<least>> \o SortedSeq(S \ {least})

\* the rows the SELECT DISTINCT of lines 166-173 returns: (clean, original)
KeywordRows ==
    { <<Trim(lower(keywords[i].keyword)), keywords[i].keyword>> :
        i \in {j \in 1..Len(keywords) : Len(Trim(keywords[j].keyword)) >= 2} }

\* LeadScrapingService._get_all_unique_keywords: every list it can return;
\* rows with one clean_keyword come in an order the query leaves open, and
\* the first of them gives the keyword returned
UniqueKeywordLists ==
    LET cleans == SortedSeq({row[1] : row \in KeywordRows})
    IN  { f \in [1..Len(cleans) -> {row[2] : row \in KeywordRows}] :
            \A i \in 1..Len(cleans) : <<cleans[i], f[i]>> \in KeywordRows }

\* lines 196-207 of f5bot_reddit_scraper.py: a post is returned only with a
\* matched keyword
PostMatches(post, kws) ==
    \E i \in 1..Len(kws) :
        Contains(lower(post.title) \o <<" ">> \o lower(post.content), lower(kws[i]))

PostOf(id) == CHOOSE post \in Posts : post.id = id

\* what search_reddit_leads_efficient can return for kws: some of the
\* matching posts, no id twice, ranked by relevance
ScraperResults(kws) ==
    { q \in SeqsUpTo({post \in Posts : PostMatches(post, kws)}, Cardinality(Posts)) :
        \A i, j \in 1..Len(q) :
            i < j => \E m, n \in 1..Len(PostOrder) :
                        m < n /\ PostOrder[m] = q[i].id /\ PostOrder[n] = q[j].id }

\* line 128: lead['id'] is "f5bot_" + post.id, and the prefix is removed again
PlatformId(lead) == lead.id

\* lines 236 and 243-255: the leads with a keyword of the business in
\* title + " " + content, compared in lower case
keyword_list(b) ==
    LET rows == get_business_keywords(b)
    IN  [i \in 1..Len(rows) |-> lower(rows[i].keyword)]

LeadMatches(lead, kwl) ==
    \E i \in 1..Len(kwl) :
        Contains(lower(lead.title \o <<" ">> \o lead.content), lower(kwl[i]))

matching_leads(unprocessed, kwl) == SelectSeq(unprocessed, LAMBDA lead : LeadMatches(lead, kwl))

Ids(ls) == [i \in 1..Len(ls) |-> ls[i].id]

\* the comparison written as > 60
MeetsThresholdStrict(ai_score) == ai_score > Threshold

\* line 301
MeetsThreshold(ai_score) == ai_score >= Threshold

\* line 283: "timeout" in str(e).lower()
HasTimeoutText(exc) == exc \in {"ReadTimeout", "ConnectTimeout", "Timeout"}

Min(a, b) == IF a < b THEN a ELSE b

(***************************************************************************)
(* One cycle: LeadScrapingService.scrape_and_process_leads.                *)
(* cyc[p] holds the counters of _scrape_reddit_leads and, as history of    *)
(* the cycle in progress, what was fetched, submitted and answered.        *)
(***************************************************************************)
NoHistory ==
    [stored_count |-> 0, duplicate_count |-> 0,   \* lines 122-123
     failed |-> FALSE,        \* an exception was caught in this cycle
     prev_failed |-> FALSE,   \* ... in the cycle before this one
     store_failed |-> {},     \* where a store operation of step 2 raised:
                              \* (business, lead), lead 0 for the loading of
                              \* the business, (0, 0) for the SELECT of line 209
     visited |-> {},          \* businesses the loop of line 223 has come to
     pending |-> {},          \* (business, lead) matched, not yet submitted
     expect |-> {},           \* (business, lead, score) answered with score >= 60
     raised |-> {},           \* businesses with a qualification call that raised
     requests |-> 0,          \* HTTP requests issued for the batch being saved
     timed_out |-> FALSE]     \* the first of them timed out

NoCall == [key |-> FALSE, leads |-> <<>>, outcome |-> [kind |-> "error", content |-> <<>>]]
NoReturn == [done |-> FALSE, raised |-> FALSE, exc |-> "", results |-> <<>>]

\* run_service line 377 / run_once line 393 (from "ready"), or
\* schedule.run_pending() finding the job due (from "idle")
StartCycle(p) ==
    /\ pc[p] \in {"ready", "idle"}
    /\ pc' = [pc EXCEPT ![p] = "scrape"]
    /\ UNCHANGED <<keywords, api_key, global_leads, business_leads, leads, bi,
                   matching, analyzed, qualified, cyc, call, ret>>

\* _scrape_reddit_leads, lines 79-119: load the keywords, run the scraper
Scrape(p) ==
    /\ pc[p] = "scrape"
    /\ \/ \* _get_all_unique_keywords: the store fails, caught at line 196, []
          /\ leads' = [leads EXCEPT ![p] = <<>>]
          /\ cyc' = [cyc EXCEPT ![p].failed = TRUE, ![p].prev_failed = FALSE]
          /\ pc' = [pc EXCEPT ![p] = "load"]
       \/ \E kws \in UniqueKeywordLists :
            IF kws = <<>>
            THEN /\ leads' = [leads EXCEPT ![p] = <<>>]
                 /\ pc' = [pc EXCEPT ![p] = "load"]
                 /\ cyc' = [cyc EXCEPT ![p].prev_failed = FALSE]
            ELSE \E found \in ScraperResults(kws) :
                    /\ leads' = [leads EXCEPT ![p] = found]
                    /\ pc' = [pc EXCEPT ![p] = IF found = <<>> THEN "load" ELSE "store"]
                    /\ cyc' = [cyc EXCEPT ![p].prev_failed = FALSE]
    /\ UNCHANGED <<keywords, api_key, global_leads, business_leads, bi,
                   matching, analyzed, qualified, call, ret>>

\* one iteration of the loop of lines 125-150
StoreLead(p) ==
    /\ pc[p] = "store"
    /\ leads[p] # <<>>
    /\ LET lead == Head(leads[p])
           r == add_global_lead("reddit", PlatformId(lead), lead.title, lead.content)
       IN  \/ /\ global_leads' = r.table
              /\ cyc' = IF r.lead_id # 0
                        THEN [cyc EXCEPT ![p].stored_count = @ + 1]
                        ELSE [cyc EXCEPT ![p].duplicate_count = @ + 1]
           \/ \* the store fails in add_global_lead: caught at line 148
              /\ global_leads' = global_leads
              /\ cyc' = [cyc EXCEPT ![p].failed = TRUE]
    /\ leads' = [leads EXCEPT ![p] = Tail(@)]
    /\ pc' = [pc EXCEPT ![p] = IF Tail(leads[p]) = <<>> THEN "load" ELSE "store"]
    /\ UNCHANGED <<keywords, api_key, business_leads, bi, matching, analyzed,
                   qualified, call, ret>>

\* the exception caught nowhere: the process ends
ProcessingFailureUncaught == "crashed"

\* lines 331-333: a store failure of step 2 ends _process_all_businesses
OnProcessingFailure == "summary"

\* _scrape_reddit_leads has returned (its counters are gone);
\* _process_all_businesses, lines 204-221: SELECT ... FROM businesses
LoadBusinesses(p) ==
    /\ pc[p] = "load"
    /\ \/ /\ bi' = [bi EXCEPT ![p] = 1]
          /\ pc' = [pc EXCEPT ![p] = "tenant"]
          /\ cyc' = [cyc EXCEPT ![p].stored_count = 0, ![p].duplicate_count = 0]
       \/ \* the store fails
          /\ bi' = [bi EXCEPT ![p] = 0]
          /\ pc' = [pc EXCEPT ![p] = OnProcessingFailure]
          /\ cyc' = [cyc EXCEPT ![p].stored_count = 0, ![p].duplicate_count = 0,
                                ![p].failed = TRUE, ![p].store_failed = {<<0, 0>>}]
    /\ UNCHANGED <<keywords, api_key, global_leads, business_leads, leads,
                   matching, analyzed, qualified, call, ret>>

\* the for loop of line 223 moves to the next business, or ends
NextBusiness(p) ==
    IF bi[p] + 1 > Len(businesses)
    THEN [pc |-> "summary", bi |-> 0]
    ELSE [pc |-> "tenant", bi |-> bi[p] + 1]

\* the for loop of line 264 moves to the next batch, or ends
NextBatch(p, rest) ==
    IF rest # <<>> THEN [pc |-> "batch", bi |-> bi[p]] ELSE NextBusiness(p)

\* lines 317-319: except Exception ... continue
OnBatchException(p, rest) == NextBatch(p, rest)

\* lines 230-259 for businesses[bi]
FetchTenant(p) ==
    /\ pc[p] = "tenant"
    /\ LET b == businesses[bi[p]]
           kwl == keyword_list(b)
           found == IF kwl = <<>> THEN <<>>      \* line 234: continue
                    ELSE Ids(matching_leads(get_unprocessed_leads_for_business(b), kwl))
           to == IF found = <<>> THEN NextBusiness(p) ELSE [pc |-> "batch", bi |-> bi[p]]
       IN  \/ /\ pc' = [pc EXCEPT ![p] = to.pc]
              /\ bi' = [bi EXCEPT ![p] = to.bi]
              /\ matching' = [matching EXCEPT ![p] = found]
              /\ cyc' = [cyc EXCEPT
                           ![p].visited = @ \cup {b},
                           ![p].pending = @ \cup {<<b, found[i]>> : i \in 1..Len(found)}]
           \/ \* the store fails in get_business_keywords or in
              \* get_unprocessed_leads_for_business: caught at line 331 only
              /\ pc' = [pc EXCEPT ![p] = OnProcessingFailure]
              /\ bi' = [bi EXCEPT ![p] = 0]
              /\ matching' = [matching EXCEPT ![p] = <<>>]
              /\ cyc' = [cyc EXCEPT ![p].failed = TRUE, ![p].store_failed = @ \cup {<<b, 0>>}]
    /\ UNCHANGED <<keywords, api_key, global_leads, business_leads, leads,
                   analyzed, qualified, call, ret>>

\* what the HTTP request of a call can do; without a key no request is made
OutcomesFor(key) == IF key THEN ServiceOutcomes ELSE {NoCall.outcome}

\* the results of one call with a score that is a number >= 60
Qualifying(b, results) ==
    { <<b, results[i].id, results[i].probability>> :
        i \in { k \in 1..Len(results) :
                  results[k].ptype = "num" /\ results[k].probability >= Threshold } }

\* lines 290-292 and 317-319: where the batch loop goes on after the call,
\* and what the cycle remembers of it
AfterAnalysis(p, b, batch, rest, r, requests, timed_out) ==
    LET to == IF r.raised THEN OnBatchException(p, rest)
              ELSE IF r.results = <<>> THEN NextBatch(p, rest)
              ELSE [pc |-> "save", bi |-> bi[p]]
    IN  /\ pc' = [pc EXCEPT ![p] = to.pc]
        /\ bi' = [bi EXCEPT ![p] = to.bi]
        /\ matching' = [matching EXCEPT ![p] = rest]
        /\ analyzed' = [analyzed EXCEPT ![p] = r.results]
        /\ qualified' = IF r.raised THEN qualified
                        ELSE qualified \cup {<<b, batch[i]>> : i \in 1..Len(batch)}
        /\ cyc' = [cyc EXCEPT
                     ![p].pending = @ \ {<<b, batch[i]>> : i \in 1..Len(batch)},
                     ![p].expect = @ \cup Qualifying(b, r.results),
                     ![p].raised = IF r.raised THEN @ \cup {b} ELSE @,
                     ![p].failed = @ \/ r.raised,
                     ![p].requests = IF to.pc = "save" THEN requests ELSE 0,
                     ![p].timed_out = to.pc = "save" /\ timed_out]

\* lines 264-292 for the next batch of matching_leads: the call of the
\* analyzer inside the retry loop
AnalyzeBatch(p) ==
    /\ pc[p] = "batch"
    /\ matching[p] # <<>>
    /\ LET b == businesses[bi[p]]
           batch == SubSeq(matching[p], 1, Min(batch_size, Len(matching[p])))
           rest == SubSeq(matching[p], batch_size + 1, Len(matching[p]))
           n == RequestsOfCall(api_key, batch)
       IN  \E o1 \in OutcomesFor(api_key) :
             LET r1 == batch_analyze_leads_for_business(api_key, batch, o1)
                 timed_out == api_key /\ o1.kind = "timeout"
             IN  IF r1.raised /\ HasTimeoutText(r1.exc) /\ MaxTries > 1
                 THEN \* retry == 0: time.sleep(2); continue
                      \E o2 \in OutcomesFor(api_key) :
                        AfterAnalysis(p, b, batch, rest,
                            batch_analyze_leads_for_business(api_key, batch, o2),
                            n + n, timed_out)
                 ELSE AfterAnalysis(p, b, batch, rest, r1, n, timed_out)
    /\ UNCHANGED <<keywords, api_key, global_leads, business_leads, leads, call, ret>>

\* the batch is done with: its request count is no longer of interest
EndBatch(c, to) ==
    IF to.pc = "save" THEN c ELSE [c EXCEPT !.requests = 0, !.timed_out = FALSE]

\* one iteration of the save loop of lines 295-312
SaveLead(p) ==
    /\ pc[p] = "save"
    /\ analyzed[p] # <<>>
    /\ LET b == businesses[bi[p]]
           analyzed_lead == Head(analyzed[p])
           left == Tail(analyzed[p])
           next == IF left # <<>> THEN [pc |-> "save", bi |-> bi[p]]
                   ELSE NextBatch(p, matching[p])
           caught == OnBatchException(p, matching[p])
       IN  IF analyzed_lead.ptype # "num"
           THEN \* None >= 60 raises TypeError: caught at line 317
                /\ business_leads' = business_leads
                /\ analyzed' = [analyzed EXCEPT ![p] = <<>>]
                /\ pc' = [pc EXCEPT ![p] = caught.pc]
                /\ bi' = [bi EXCEPT ![p] = caught.bi]
                /\ cyc' = [cyc EXCEPT ![p] = EndBatch([@ EXCEPT !.failed = TRUE], caught)]
           ELSE IF MeetsThreshold(analyzed_lead.probability)
           THEN \/ /\ business_leads' =
                        add_business_lead(b, analyzed_lead.id, analyzed_lead.probability,
                                          analyzed_lead.analysis).table
                   /\ analyzed' = [analyzed EXCEPT ![p] = left]
                   /\ pc' = [pc EXCEPT ![p] = next.pc]
                   /\ bi' = [bi EXCEPT ![p] = next.bi]
                   /\ cyc' = [cyc EXCEPT ![p] = EndBatch(@, next)]
                \/ \* the store fails in add_business_lead: caught at line 317
                   /\ business_leads' = business_leads
                   /\ analyzed' = [analyzed EXCEPT ![p] = <<>>]
                   /\ pc' = [pc EXCEPT ![p] = caught.pc]
                   /\ bi' = [bi EXCEPT ![p] = caught.bi]
                   /\ cyc' = [cyc EXCEPT ![p] =
                                EndBatch([@ EXCEPT !.failed = TRUE,
                                                   !.store_failed = @ \cup {<<b, analyzed_lead.id>>}], caught)]
           ELSE /\ business_leads' = business_leads
                /\ analyzed' = [analyzed EXCEPT ![p] = left]
                /\ pc' = [pc EXCEPT ![p] = next.pc]
                /\ bi' = [bi EXCEPT ![p] = next.bi]
                /\ cyc' = [cyc EXCEPT ![p] = EndBatch(@, next)]
    /\ UNCHANGED <<keywords, api_key, global_leads, leads, matching, qualified, call, ret>>

\* lines 64-73: _log_summary, then back to run_service's loop (lines 381-383)
\* or, for run_once, to the end of the process
Summary(p) ==
    /\ pc[p] = "summary"
    /\ pc' = [pc EXCEPT ![p] = IF p = "service" THEN "idle" ELSE "exit"]
    /\ cyc' = [cyc EXCEPT ![p] = [NoHistory EXCEPT !.prev_failed = cyc[p].failed]]
    /\ UNCHANGED <<keywords, api_key, global_leads, business_leads, leads, bi,
                   matching, analyzed, qualified, call, ret>>

Cycle(p) ==
    \/ StartCycle(p)
    \/ Scrape(p)
    \/ StoreLead(p)
    \/ LoadBusinesses(p)
    \/ FetchTenant(p)
    \/ AnalyzeBatch(p)
    \/ SaveLead(p)
    \/ Summary(p)

(***************************************************************************)
(* Spec: the service process alone (python background_service.py).         *)
(***************************************************************************)
NoLocal == [p \in Proc |-> <<>>]

Init ==
    /\ keywords \in KeywordTables
    /\ api_key \in BOOLEAN
    /\ global_leads = <<>>
    /\ business_leads = {}
    /\ pc = [p \in Proc |-> IF p = "service" THEN "ready" ELSE "off"]
    /\ leads = NoLocal
    /\ bi = [p \in Proc |-> 0]
    /\ matching = NoLocal
    /\ analyzed = NoLocal
    /\ qualified = {}
    /\ cyc = [p \in Proc |-> NoHistory]
    /\ call = NoCall
    /\ ret = NoReturn

Next == \E p \in Proc : Cycle(p)

Spec == Init /\ [][Next]_vars

FairSpec == Spec /\ WF_vars(Next)

(***************************************************************************)
(* OverlapSpec: run_once started while the service runs its first cycle    *)
(* (python background_service.py once): step 1 of two cycles over one      *)
(* store, which may hold a lead of an earlier run.                         *)
(***************************************************************************)
EarlierLead ==
    [id |-> 1, platform |-> "reddit", platform_id |-> "p3",
     title |-> PostOf("p3").title, content |-> PostOf("p3").content]

InitOverlap ==
    /\ keywords \in KeywordTables
    /\ api_key \in BOOLEAN
    /\ global_leads \in {<<>>, <<EarlierLead>>}
    /\ business_leads = {}
    /\ pc = [p \in Proc |-> "ready"]
    /\ leads = NoLocal
    /\ bi = [p \in Proc |-> 0]
    /\ matching = NoLocal
    /\ analyzed = NoLocal
    /\ qualified = {}
    /\ cyc = [p \in Proc |-> NoHistory]
    /\ call = NoCall
    /\ ret = NoReturn

NextOverlap == \E p \in Proc : StartCycle(p) \/ Scrape(p) \/ StoreLead(p)

OverlapSpec == InitOverlap /\ [][NextOverlap]_vars

(***************************************************************************)
(* AnalyzerSpec: one call of batch_analyze_leads_for_business, for every   *)
(* batch of leads and every answer of the LLM within the bounds.           *)
(***************************************************************************)
LeadIds == 1..Cardinality(Posts)

Batches == {q \in SeqsUpTo(LeadIds, Cardinality(Posts)) :
              \A i, j \in 1..Len(q) : i # j => q[i] # q[j]}

InitAnalyzer ==
    /\ keywords \in KeywordTables
    /\ api_key = FALSE
    /\ global_leads = <<>>
    /\ business_leads = {}
    /\ pc = [p \in Proc |-> "off"]
    /\ leads = NoLocal
    /\ bi = [p \in Proc |-> 0]
    /\ matching = NoLocal
    /\ analyzed = NoLocal
    /\ qualified = {}
    /\ cyc = [p \in Proc |-> NoHistory]
    /\ call \in [key : BOOLEAN, leads : Batches, outcome : LLMOutcomes]
    /\ ret = NoReturn

BatchAnalyze ==
    /\ ~ret.done
    /\ LET r == batch_analyze_leads_for_business(call.key, call.leads, call.outcome)
       IN  ret' = [done |-> TRUE, raised |-> r.raised, exc |-> r.exc, results |-> r.results]
    /\ UNCHANGED <<keywords, api_key, global_leads, business_leads, pc, leads, bi,
                   matching, analyzed, qualified, cyc, call>>

NextAnalyzer == BatchAnalyze

AnalyzerSpec == InitAnalyzer /\ [][NextAnalyzer]_vars

(***************************************************************************)
(* Properties.                                                             *)
(***************************************************************************)
\* the businesses the loop of line 223 comes to after business a
LaterBusinesses(a) ==
    {businesses[j] : j \in {k \in 1..Len(businesses) :
                              \E i \in 1..(k - 1) : businesses[i] = a}}

HasRow(b, g) == \E row \in business_leads : row.business_id = b /\ row.global_lead_id = g

HasRowScored(b, g, score) ==
    \E row \in business_leads :
        row.business_id = b /\ row.global_lead_id = g /\ row.ai_score = score

\* process p takes a step of the save loop
SaveStep(p) == pc[p] = "save" /\ analyzed[p] # <<>> /\ analyzed'[p] # analyzed[p]

\* C1: a global lead that was qualified for a business (persisted or
\* discarded) is never again among the leads about to be submitted to the
\* analyzer for that business.
C1_SubmittedAtMostOnce ==
    \A p \in Proc :
        pc[p] = "batch" =>
            \A i \in 1..Min(batch_size, Len(matching[p])) :
                <<businesses[bi[p]], matching[p][i]>> \notin qualified

\* C2: every business_leads row has ai_score >= 60, and the save loop
\* persists a lead it comes to exactly when its score is >= 60: a score
\* below 60 adds no row, a score of 60 or more (60 itself included) leaves a
\* row of the pair behind unless the store raises.
C2_RowsMeetThreshold == \A row \in business_leads : row.ai_score >= 60

C2_SaveDecision ==
    \A p \in Proc :
        (SaveStep(p) /\ Head(analyzed[p]).ptype = "num") =>
            LET b == businesses[bi[p]]
                lead == Head(analyzed[p])
            IN  IF lead.probability >= 60
                THEN \/ /\ HasRow(b, lead.id)
                        /\ business_leads' = business_leads
                     \/ /\ ~HasRow(b, lead.id)
                        /\ business_leads' = business_leads \cup
                              {[business_id |-> b, global_lead_id |-> lead.id,
                                ai_score |-> lead.probability,
                                ai_reasoning |-> lead.analysis]}
                     \/ /\ <<b, lead.id>> \in cyc'[p].store_failed
                        /\ business_leads' = business_leads
                ELSE business_leads' = business_leads

C3_OnePerPair ==
    \A i, j \in 1..Len(global_leads) :
        (/\ global_leads[i].platform = global_leads[j].platform
         /\ global_leads[i].platform_id = global_leads[j].platform_id) => i = j

C3_StoreStep ==
    \A p \in Proc :
        (pc[p] = "store" /\ leads[p] # <<>> /\ leads'[p] = Tail(leads[p])) =>
            LET lead == Head(leads[p])
                stored == \E i \in 1..Len(global_leads) :
                             /\ global_leads[i].platform = "reddit"
                             /\ global_leads[i].platform_id = lead.id
                raises == /\ global_leads' = global_leads
                          /\ cyc'[p].failed
                          /\ cyc'[p].stored_count = cyc[p].stored_count
                          /\ cyc'[p].duplicate_count = cyc[p].duplicate_count
            IN  IF stored
                THEN \/ /\ global_leads' = global_leads
                        /\ cyc'[p].stored_count = cyc[p].stored_count
                        /\ cyc'[p].duplicate_count = cyc[p].duplicate_count + 1
                     \/ raises
                ELSE \/ /\ global_leads' =
                             Append(global_leads,
                                    [id |-> Len(global_leads) + 1, platform |-> "reddit",
                                     platform_id |-> lead.id, title |-> lead.title,
                                     content |-> lead.content])
                        /\ cyc'[p].stored_count = cyc[p].stored_count + 1
                        /\ cyc'[p].duplicate_count = cyc[p].duplicate_count
                     \/ raises

C3_Idempotent == []C3_OnePerPair /\ [][C3_StoreStep]_vars

\* both cycles are in their store loop: one has stored post p1, the other
\* has met it as a duplicate
C3_Witness ==
    \E p, q \in Proc :
        /\ p # q
        /\ pc[p] = "store" /\ pc[q] = "store"
        /\ cyc[p].stored_count = 1 /\ cyc[p].duplicate_count = 0
        /\ cyc[q].stored_count = 0 /\ cyc[q].duplicate_count = 1
        /\ Len(global_leads) = 1
        /\ global_leads[1].platform_id = "p1"

\* the (business, post) pairs with a keyword of the business in the post
MatchingPairs == {<<1, "p1">>, <<1, "p2">>, <<3, "p2">>, <<3, "p3">>}

\* C4: for every business in every cycle, no lead without a keyword of the
\* business is analysed or persisted, and when the cycle ends without a
\* store failure every analysed lead with an attached probability >= 60 has
\* a business_leads row with that probability as ai_score.
C4_ExactlyTheQualifying ==
    /\ \A q \in qualified : <<q[1], global_leads[q[2]].platform_id>> \in MatchingPairs
    /\ \A row \in business_leads :
          <<row.business_id, global_leads[row.global_lead_id].platform_id>> \in MatchingPairs
    /\ \A p \in Proc :
          (pc[p] = "summary" /\ cyc[p].store_failed = {}) =>
              \A e \in cyc[p].expect : HasRowScored(e[1], e[2], e[3])

\* C7: a batch whose first request timed out has had its request issued
\* exactly twice when its results come to the save loop.
C7_OneRetryOnTimeout ==
    \A p \in Proc : (pc[p] = "save" /\ cyc[p].timed_out) => cyc[p].requests = 2

\* C8: when a qualification call of business A has raised in a cycle that
\* ends without a store failure, every business after A has been loaded,
\* has had all its matching leads qualified, and has every lead answered
\* with a probability >= 60 persisted.
C8_QualificationIsolated ==
    \A p \in Proc :
        (pc[p] = "summary" /\ cyc[p].store_failed = {}) =>
            \A a \in cyc[p].raised : \A b \in LaterBusinesses(a) :
                /\ b \in cyc[p].visited
                /\ \A q \in cyc[p].pending : q[1] # b
                /\ \A e \in cyc[p].expect : e[1] = b => HasRowScored(e[1], e[2], e[3])

\* C9: when any exception was raised while business A was processed (a store
\* failure at its keywords, unprocessed leads or rows, or a qualification
\* call that raised), the cycle has still come to every business after A
\* when it ends.
C9_TenantIsolated ==
    \A p \in Proc :
        pc[p] = "summary" =>
            \A a \in {f[1] : f \in cyc[p].store_failed} \cup cyc[p].raised :
                a # 0 => \A b \in LaterBusinesses(a) : b \in cyc[p].visited

\* C10: under weak fairness of the service's steps, cycles are started
\* infinitely often, whatever exceptions the cycles before have caught.
C10_CyclesForever == []<>(pc["service"] = "scrape")

\* a cycle starts after a cycle that caught an exception
C10_Witness == pc["service"] = "scrape" /\ cyc["service"].prev_failed

\* number of tokens t among the first n of s
CountTok(s, t, n) == Cardinality({i \in 1..n : s[i].t = t})

\* js is the text of one JSON array: no other text in it, its first bracket
\* is closed by its last one
IsJsonArrayText(js) ==
    /\ Len(js) >= 2
    /\ js[1].t = "lb"
    /\ js[Len(js)].t = "rb"
    /\ \A i \in 1..Len(js) : js[i].t # "txt"
    /\ \A n \in 1..(Len(js) - 1) : CountTok(js, "lb", n) > CountTok(js, "rb", n)
    /\ CountTok(js, "lb", Len(js)) = CountTok(js, "rb", Len(js))

\* the text from the first '[' to the last ']' of c, <<>> without them
Bracketed(c) ==
    IF \E a, b \in 1..Len(c) : a < b /\ c[a].t = "lb" /\ c[b].t = "rb"
    THEN LET a == CHOOSE i \in 1..Len(c) :
                      c[i].t = "lb" /\ \A j \in 1..(i - 1) : c[j].t # "lb"
             b == CHOOSE i \in 1..Len(c) :
                      c[i].t = "rb" /\ \A j \in (i + 1)..Len(c) : c[j].t # "rb"
         IN  SubSeq(c, a, b)
    ELSE <<>>

HoldsJsonArray(c) == IsJsonArrayText(Bracketed(c))

\* the call was made with an API key and at least one lead, and has ended
Analyzed == ret.done /\ call.key /\ call.leads # <<>>

\* C5: for k leads and a response holding a JSON array of m elements, the
\* call does not raise and returns k results in input order; result i has
\* the probability and analysis of element i for i <= min(k, m), and
\* probability 0 with 'Analysis not found' beyond.
C5_Positional ==
    (Analyzed /\ call.outcome.kind = "ok" /\ HoldsJsonArray(call.outcome.content)) =>
        LET elems == json_loads(Bracketed(call.outcome.content)).values
            k == Len(call.leads)
        IN  /\ ~ret.raised
            /\ Len(ret.results) = k
            /\ \A i \in 1..k :
                  /\ ret.results[i].id = call.leads[i]
                  /\ (i <= Len(elems) /\ elems[i].t = "obj" /\ elems[i].ptype = "num")
                        => ret.results[i].probability = elems[i].probability
                  /\ i > Len(elems)
                        => /\ ret.results[i].probability = 0
                           /\ ret.results[i].analysis = "Analysis not found"

\* C6: when the request fails or the response holds no parseable JSON array,
\* the call does not raise and returns, for every lead in input order,
\* probability 0 and 'Batch analysis failed'.
C6_BatchFailed ==
    (Analyzed /\ (call.outcome.kind # "ok" \/ ~HoldsJsonArray(call.outcome.content))) =>
        /\ ~ret.raised
        /\ ret.results =
              [i \in 1..Len(call.leads) |->
                  [id |-> call.leads[i], ptype |-> "num", probability |-> 0,
                   analysis |-> "Batch analysis failed"]]

\* two leads, a response with '[' and ']' and no JSON between them
C6_Witness ==
    /\ Analyzed
    /\ Len(call.leads) = 2
    /\ call.outcome.kind = "ok"
    /\ call.outcome.content = <<Tok("lb"), Tok("txt"), Tok("rb")>>
    /\ Len(ret.results) = 2
    /\ ret.results[2].analysis = "Batch analysis failed"

(***************************************************************************)
(* F5BotRedditScraper._split_keywords_into_batches (f5bot_reddit_scraper). *)
(* A keyword is its first characters and the number of characters that     *)
(* follow them.                                                            *)
(***************************************************************************)
MaxKeywords == 14

max_keywords_per_batch == 12
max_query_length == 1800

Kw(text, pad) == [text |-> text, pad |-> pad]

\* len(keyword)
KwLen(kw) == Len(kw.text) + kw.pad

\* len(f'"{keyword}" OR ')
keyword_length(kw) == KwLen(kw) + 6

RECURSIVE SumLen(_)
SumLen(batch) == IF batch = <<>> THEN 0 ELSE KwLen(Head(batch)) + 2 + SumLen(Tail(batch))

\* len("(" + " OR ".join([f'"{kw}"' for kw in keywords]) + ")"), lines 172, 247
QueryLength(batch) ==
    2 + SumLen(batch) + (IF batch = <<>> THEN 0 ELSE 4 * (Len(batch) - 1))

SplitStart == [batches |-> <<>>, current_batch |-> <<>>, current_query_length |-> 0]

\* the new batch is started without the keyword that did not fit
SplitStepDrops(st, keyword) ==
    LET would_exceed_count == Len(st.current_batch) >= max_keywords_per_batch
        would_exceed_length ==
            st.current_query_length + keyword_length(keyword) > max_query_length
    IN  IF (would_exceed_count \/ would_exceed_length) /\ st.current_batch # <<>>
        THEN [batches |-> Append(st.batches, st.current_batch),
              current_batch |-> <<>>,
              current_query_length |-> 0]
        ELSE [batches |-> st.batches,
              current_batch |-> Append(st.current_batch, keyword),
              current_query_length |-> st.current_query_length + keyword_length(keyword)]

\* one iteration of the loop of lines 460-476
SplitStep(st, keyword) ==
    LET would_exceed_count == Len(st.current_batch) >= max_keywords_per_batch
        would_exceed_length ==
            st.current_query_length + keyword_length(keyword) > max_query_length
    IN  IF (would_exceed_count \/ would_exceed_length) /\ st.current_batch # <<>>
        THEN [batches |-> Append(st.batches, st.current_batch),
              current_batch |-> <<keyword>>,
              current_query_length |-> keyword_length(keyword)]
        ELSE [batches |-> st.batches,
              current_batch |-> Append(st.current_batch, keyword),
              current_query_length |-> st.current_query_length + keyword_length(keyword)]

RECURSIVE SplitLoop(_, _)
SplitLoop(st, kws) ==
    IF kws = <<>> THEN st ELSE SplitLoop(SplitStep(st, Head(kws)), Tail(kws))

_split_keywords_into_batches(kws) ==
    IF Len(kws) <= max_keywords_per_batch THEN <<kws>>
    ELSE LET st == SplitLoop(SplitStart, kws)
         IN  IF st.current_batch # <<>> THEN Append(st.batches, st.current_batch)
             ELSE st.batches

\* a keyword of 2 characters and one of 900
SplitKeywords == {Kw(<<"a", "i">>, 0), Kw(<<"x">>, 899)}

InitSplit ==
    /\ keywords \in KeywordTables
    /\ api_key = FALSE
    /\ global_leads = <<>>
    /\ business_leads = {}
    /\ pc = [p \in Proc |-> "off"]
    /\ leads = NoLocal
    /\ bi = [p \in Proc |-> 0]
    /\ matching = NoLocal
    /\ analyzed = NoLocal
    /\ qualified = {}
    /\ cyc = [p \in Proc |-> NoHistory]
    /\ call \in [keywords : SeqsUpTo(SplitKeywords, MaxKeywords)]
    /\ ret = [done |-> FALSE, batches |-> <<>>]

SplitKeywordsIntoBatches ==
    /\ ~ret.done
    /\ ret' = [done |-> TRUE, batches |-> _split_keywords_into_batches(call.keywords)]
    /\ UNCHANGED <<keywords, api_key, global_leads, business_leads, pc, leads, bi,
                   matching, analyzed, qualified, cyc, call>>

NextSplit == SplitKeywordsIntoBatches

SplitSpec == InitSplit /\ [][NextSplit]_vars

RECURSIVE Flatten(_)
Flatten(ss) == IF ss = <<>> THEN <<>> ELSE Head(ss) \o Flatten(Tail(ss))

\* C12: the batches returned for a keyword list, concatenated in order, are
\* the list itself: every occurrence in exactly one batch, order preserved.
C12_BatchesPartitionInput == ret.done => Flatten(ret.batches) = call.keywords

\* 14 keywords split by the count limit and by the length limit
C12_Witness ==
    /\ ret.done
    /\ Len(call.keywords) = 14
    /\ Len(ret.batches) >= 3
    /\ \E i \in 1..Len(ret.batches) : Len(ret.batches[i]) = max_keywords_per_batch

\* C13: every returned batch of more than one keyword has a serialized query
\* of at most 1800 characters.
C13_QueryWithinLength ==
    ret.done =>
        \A i \in 1..Len(ret.batches) :
            Len(ret.batches[i]) > 1 => QueryLength(ret.batches[i]) <= 1800

(***************************************************************************)
(* F5BotRedditScraper._deduplicate_posts.                                  *)
(***************************************************************************)
MaxPosts == 3

\* RedditPost values that differ in id, url and title
Candidates == [id : {"", "a", "b"}, url : {"", "u", "v"}, title : {"s", "t"}]

DedupStart == [seen_ids |-> {}, seen_urls |-> {}, unique_posts |-> <<>>]

\* the url of a kept post is not remembered
DedupStepForgetsUrl(st, post) ==
    IF post.id # "" /\ post.id \in st.seen_ids THEN st
    ELSE IF post.url # "" /\ post.url \in st.seen_urls THEN st
    ELSE [seen_ids |-> IF post.id # "" THEN st.seen_ids \cup {post.id} ELSE st.seen_ids,
          seen_urls |-> st.seen_urls,
          unique_posts |-> Append(st.unique_posts, post)]

\* one iteration of the loop of lines 378-391
DedupStep(st, post) ==
    IF post.id # "" /\ post.id \in st.seen_ids THEN st
    ELSE IF post.url # "" /\ post.url \in st.seen_urls THEN st
    ELSE [seen_ids |-> IF post.id # "" THEN st.seen_ids \cup {post.id} ELSE st.seen_ids,
          seen_urls |-> IF post.url # "" THEN st.seen_urls \cup {post.url} ELSE st.seen_urls,
          unique_posts |-> Append(st.unique_posts, post)]

RECURSIVE DedupLoop(_, _)
DedupLoop(st, posts) ==
    IF posts = <<>> THEN st ELSE DedupLoop(DedupStep(st, Head(posts)), Tail(posts))

_deduplicate_posts(posts) == DedupLoop(DedupStart, posts).unique_posts

InitDedup ==
    /\ keywords \in KeywordTables
    /\ api_key = FALSE
    /\ global_leads = <<>>
    /\ business_leads = {}
    /\ pc = [p \in Proc |-> "off"]
    /\ leads = NoLocal
    /\ bi = [p \in Proc |-> 0]
    /\ matching = NoLocal
    /\ analyzed = NoLocal
    /\ qualified = {}
    /\ cyc = [p \in Proc |-> NoHistory]
    /\ call \in [posts : SeqsUpTo(Candidates, MaxPosts)]
    /\ ret = [done |-> FALSE, unique_posts |-> <<>>]

DeduplicatePosts ==
    /\ ~ret.done
    /\ ret' = [done |-> TRUE, unique_posts |-> _deduplicate_posts(call.posts)]
    /\ UNCHANGED <<keywords, api_key, global_leads, business_leads, pc, leads, bi,
                   matching, analyzed, qualified, cyc, call>>

NextDedup == DeduplicatePosts

DedupSpec == InitDedup /\ [][NextDedup]_vars

\* u is p with some elements left out
IsSubsequence(u, p) ==
    \E f \in [1..Len(u) -> 1..Len(p)] :
        /\ \A i, j \in 1..Len(u) : i < j => f[i] < f[j]
        /\ \A i \in 1..Len(u) : u[i] = p[f[i]]

\* C14: the output of _deduplicate_posts is a subsequence of its input in
\* which no two posts share a non-empty id and no two share a non-empty url.
C14_DedupSubsequence ==
    ret.done =>
        /\ IsSubsequence(ret.unique_posts, call.posts)
        /\ \A i, j \in 1..Len(ret.unique_posts) :
              i # j =>
                /\ ret.unique_posts[i].id = "" \/ ret.unique_posts[i].id # ret.unique_posts[j].id
                /\ ret.unique_posts[i].url = "" \/ ret.unique_posts[i].url # ret.unique_posts[j].url

\* of three posts the second repeats the url of the first and is removed
C14_Witness ==
    /\ ret.done
    /\ Len(call.posts) = 3
    /\ Len(ret.unique_posts) = 2
    /\ call.posts[1].id = "" /\ call.posts[2].id = ""
    /\ call.posts[1].url = "u" /\ call.posts[2].url = "u"
    /\ ret.unique_posts[2] = call.posts[3]

\* C19: the first post of the input with a given non-empty id is kept: a
\* post with a non-empty id is removed only for an earlier post of its id,
\* never for its url.
C19_IdIsTheIdentity ==
    ret.done =>
        \A i \in 1..Len(call.posts) :
            (/\ call.posts[i].id # ""
             /\ \A j \in 1..(i - 1) : call.posts[j].id # call.posts[i].id)
                => \E k \in 1..Len(ret.unique_posts) : ret.unique_posts[k] = call.posts[i]

(***************************************************************************)
(* F5BotRedditScraper._filter_by_keywords_relevance.  Scores are counted   *)
(* in tenths, so that score / 10.0 and num_comments / 5.0 stay integers.   *)
(***************************************************************************)
MaxMatched == 2

\* \w of the regular expressions
IsWordChar(c) == c \in {Alphabet[i] : i \in 2..Len(Alphabet)} \cup {"C", "R", "M", "H"}

\* \b at offset k of text (0 <= k <= len(text))
WordBoundary(text, k) ==
    LET before == k >= 1 /\ IsWordChar(text[k])
        after == k < Len(text) /\ IsWordChar(text[k + 1])
    IN  before # after

\* re.search(r'\b' + re.escape(kw) + r'\b', text)
SearchWord(kw, text) ==
    \E i \in 0..(Len(text) - Len(kw)) :
        /\ SubSeq(text, i + 1, i + Len(kw)) = kw
        /\ WordBoundary(text, i)
        /\ WordBoundary(text, i + Len(kw))

\* str.strip()
strip(s) == Trim(s)

\* a keyword found in neither title nor content is taken off the score
ScoreKeywordPenalty(score, post, keyword) ==
    LET title_lower == lower(post.title)
        content_lower == lower(post.content)
        keyword_lower == lower(keyword)
    IN  IF ~Contains(title_lower, keyword_lower) /\ ~Contains(content_lower, keyword_lower)
        THEN score - 30
        ELSE score
               + (IF Contains(title_lower, keyword_lower)
                  THEN 100 + (IF keyword_lower = strip(title_lower) THEN 50 ELSE 0)
                  ELSE 0)
               + (IF Contains(content_lower, keyword_lower) THEN 50 ELSE 0)
               + (IF SearchWord(keyword_lower, title_lower) THEN 30 ELSE 0)
               + (IF SearchWord(keyword_lower, content_lower) THEN 20 ELSE 0)

\* lines 406-424: what one matched keyword adds to the score
ScoreKeyword(score, post, keyword) ==
    LET title_lower == lower(post.title)
        content_lower == lower(post.content)
        keyword_lower == lower(keyword)
    IN  score
          + (IF Contains(title_lower, keyword_lower)
             THEN 100 + (IF keyword_lower = strip(title_lower) THEN 50 ELSE 0)
             ELSE 0)
          + (IF Contains(content_lower, keyword_lower) THEN 50 ELSE 0)
          + (IF SearchWord(keyword_lower, title_lower) THEN 30 ELSE 0)
          + (IF SearchWord(keyword_lower, content_lower) THEN 20 ELSE 0)

RECURSIVE ScoreKeywords(_, _, _)
ScoreKeywords(score, post, mk) ==
    IF mk = <<>> THEN score
    ELSE ScoreKeywords(ScoreKeyword(score, post, Head(mk)), post, Tail(mk))

\* calculate_relevance, lines 398-432
calculate_relevance(post) ==
    ScoreKeywords(0, post, post.matched_keywords)
      + Len(post.matched_keywords) * 20
      + Min(post.score, 50)
      + Min(post.num_comments * 2, 30)

\* list.sort(key=relevance, reverse=True): stable, highest first
RECURSIVE InsertByRelevance(_, _)
InsertByRelevance(sorted, x) ==
    IF sorted = <<>> THEN <<x>>
    ELSE IF Head(sorted)[2] >= x[2] THEN <<Head(sorted)>> \o InsertByRelevance(Tail(sorted), x)
    ELSE <<x>> \o sorted

RECURSIVE SortByRelevance(_)
SortByRelevance(ps) ==
    IF ps = <<>> THEN <<>>
    ELSE InsertByRelevance(SortByRelevance(SubSeq(ps, 1, Len(ps) - 1)), ps[Len(ps)])

_filter_by_keywords_relevance(posts) ==
    LET posts_with_relevance ==
            SelectSeq([i \in 1..Len(posts) |-> <<posts[i], calculate_relevance(posts[i])>>],
                      LAMBDA x : x[2] > 0)
        sorted == SortByRelevance(posts_with_relevance)
    IN  [i \in 1..Len(sorted) |-> sorted[i][1]]

ScoredKeywords == {Str_CRM, Str_api}

ScoredPosts ==
    [title : {<<"c", "r", "m">>, <<"a", " ", "c", "r", "m">>, <<"H", "i">>},
     content : {<<>>, <<"c", "r", "m", "x">>},
     score : {-1000, -1, 0, 70},
     num_comments : {-50, 0, 20},
     matched_keywords : SeqsUpTo(ScoredKeywords, MaxMatched)]

InitRelevance ==
    /\ keywords \in KeywordTables
    /\ api_key = FALSE
    /\ global_leads = <<>>
    /\ business_leads = {}
    /\ pc = [p \in Proc |-> "off"]
    /\ leads = NoLocal
    /\ bi = [p \in Proc |-> 0]
    /\ matching = NoLocal
    /\ analyzed = NoLocal
    /\ qualified = {}
    /\ cyc = [p \in Proc |-> NoHistory]
    /\ call \in [post : ScoredPosts, keyword : ScoredKeywords]
    /\ ret = [done |-> FALSE, relevance |-> 0, with_keyword |-> 0, kept |-> <<>>]

\* the post is scored and filtered, as it is and with one more matched keyword
FilterByRelevance ==
    /\ ~ret.done
    /\ LET more == [call.post EXCEPT !.matched_keywords = Append(@, call.keyword)]
       IN  ret' = [done |-> TRUE,
                   relevance |-> calculate_relevance(call.post),
                   with_keyword |-> calculate_relevance(more),
                   kept |-> _filter_by_keywords_relevance(<<call.post>>)]
    /\ UNCHANGED <<keywords, api_key, global_leads, business_leads, pc, leads, bi,
                   matching, analyzed, qualified, cyc, call>>

NextRelevance == FilterByRelevance

RelevanceSpec == InitRelevance /\ [][NextRelevance]_vars

\* C15: the score of a post with one more keyword appended to its
\* matched_keywords is at least its score without it.
C15_Monotonic == ret.done => ret.with_keyword >= ret.relevance

\* the appended keyword is the whole title: 10 + 5 + 3 and 2 more
C15_Witness ==
    /\ ret.done
    /\ Len(call.post.matched_keywords) = 1
    /\ call.post.title = <<"c", "r", "m">>
    /\ call.post.content = <<>>
    /\ call.keyword = Str_CRM
    /\ ret.with_keyword = ret.relevance + 200

\* C20: a post with at least one matched keyword has a relevance above 0
\* and is kept by the filter, whatever its score and number of comments.
C20_MatchedIsRetained ==
    (ret.done /\ call.post.matched_keywords # <<>>) =>
        ret.relevance > 0 /\ ret.kept = <<call.post>>


(***************************************************************************)
(* QuietSpec: the service over a store whose keywords are all shorter than *)
(* 2 characters once trimmed, and which holds leads of earlier cycles.     *)
(***************************************************************************)
\* keywords rows the WHERE LENGTH(TRIM(keyword)) >= 2 of line 170 leaves out
ShortKeywordTables ==
    { << [business_id |-> 1, keyword |-> <<"a">>],
         [business_id |-> 3, keyword |-> <<" ", "c">>] >> }

\* global_leads rows stored by earlier cycles
EarlierLeadTables ==
    LET row(n, id) == [id |-> n, platform |-> "reddit", platform_id |-> id,
                       title |-> PostOf(id).title, content |-> PostOf(id).content]
    IN  { <<row(1, "p1")>>, <<row(1, "p1"), row(2, "p2")>> }

InitQuiet ==
    /\ keywords \in ShortKeywordTables
    /\ api_key \in BOOLEAN
    /\ global_leads \in EarlierLeadTables
    /\ business_leads = {}
    /\ pc = [p \in Proc |-> IF p = "service" THEN "ready" ELSE "off"]
    /\ leads = NoLocal
    /\ bi = [p \in Proc |-> 0]
    /\ matching = NoLocal
    /\ analyzed = NoLocal
    /\ qualified = {}
    /\ cyc = [p \in Proc |-> NoHistory]
    /\ call = NoCall
    /\ ret = NoReturn

\* the loop of lines 125-150 is never entered: no lead is returned
NextQuiet ==
    \E p \in Proc :
        \/ StartCycle(p)
        \/ Scrape(p)
        \/ LoadBusinesses(p)
        \/ FetchTenant(p)
        \/ AnalyzeBatch(p)
        \/ SaveLead(p)
        \/ Summary(p)

QuietSpec == InitQuiet /\ [][NextQuiet]_vars

\* C11: when the aggregated keyword list is empty the cycle does nothing:
\* no qualification request is issued, no tenant lead and no global lead is
\* created, also when leads of earlier cycles are stored and the tenants own
\* keywords the aggregation leaves out.
C11_EmptyListIsNoOp ==
    UniqueKeywordLists = {<<>>} =>
        /\ \A p \in Proc : cyc[p].requests = 0
        /\ business_leads = {}
        /\ global_leads \in EarlierLeadTables


(***************************************************************************)
(* ConflictSpec: run_once started while the service runs, whole cycles,    *)
(* over a store with one tenant keyword.                                   *)
(***************************************************************************)
OneTenantTables == { << [business_id |-> 1, keyword |-> Str_startup] >> }

InitConflict ==
    /\ keywords \in OneTenantTables
    /\ api_key \in BOOLEAN
    /\ global_leads = <<>>
    /\ business_leads = {}
    /\ pc = [p \in Proc |-> "ready"]
    /\ leads = NoLocal
    /\ bi = [p \in Proc |-> 0]
    /\ matching = NoLocal
    /\ analyzed = NoLocal
    /\ qualified = {}
    /\ cyc = [p \in Proc |-> NoHistory]
    /\ call = NoCall
    /\ ret = NoReturn

ConflictSpec == InitConflict /\ [][Next]_vars

\* what the two insert operations return where the row is already stored
C18_ReturnsNone ==
    \A p \in Proc :
        /\ (/\ pc[p] = "store"
            /\ leads[p] # <<>>
            /\ \E i \in 1..Len(global_leads) :
                 /\ global_leads[i].platform = "reddit"
                 /\ global_leads[i].platform_id = PlatformId(Head(leads[p]))) =>
               LET lead == Head(leads[p])
               IN  add_global_lead("reddit", PlatformId(lead), lead.title, lead.content)
                     = [table |-> global_leads, lead_id |-> 0]
        /\ (/\ pc[p] = "save"
            /\ analyzed[p] # <<>>
            /\ HasRow(businesses[bi[p]], Head(analyzed[p]).id)) =>
               LET lead == Head(analyzed[p])
               IN  add_business_lead(businesses[bi[p]], lead.id, lead.probability, lead.analysis)
                     = [table |-> business_leads, lead_id |-> 0]

\* a step of the store loop or of the save loop that meets a stored row
C18_ConflictStep ==
    \A p \in Proc :
        /\ (/\ pc[p] = "store" /\ leads[p] # <<>> /\ leads'[p] = Tail(leads[p])
            /\ \E i \in 1..Len(global_leads) :
                 /\ global_leads[i].platform = "reddit"
                 /\ global_leads[i].platform_id = PlatformId(Head(leads[p]))) =>
               /\ global_leads' = global_leads
               /\ pc'[p] = IF Tail(leads[p]) = <<>> THEN "load" ELSE "store"
               /\ cyc'[p].stored_count = cyc[p].stored_count
               /\ \/ /\ cyc'[p].duplicate_count = cyc[p].duplicate_count + 1
                     /\ cyc'[p].failed = cyc[p].failed
                  \/ \* the store is out of reach: no conflict is met
                     /\ cyc'[p].duplicate_count = cyc[p].duplicate_count
                     /\ cyc'[p].failed
        /\ (/\ SaveStep(p)
            /\ Head(analyzed[p]).ptype = "num"
            /\ Head(analyzed[p]).probability >= 60
            /\ HasRow(businesses[bi[p]], Head(analyzed[p]).id)) =>
               /\ business_leads' = business_leads
               /\ \/ /\ analyzed'[p] = Tail(analyzed[p])
                     /\ cyc'[p].failed = cyc[p].failed
                     /\ cyc'[p].store_failed = cyc[p].store_failed
                     /\ pc'[p] \in {"save", "batch", "tenant", "summary"}
                  \/ \* the store is out of reach: no conflict is met
                     <<businesses[bi[p]], Head(analyzed[p]).id>> \in cyc'[p].store_failed

MaxRequests == 10
MaxReturned == 1

min_delay == 12
max_delay == 28

\* random.uniform(self.min_delay, self.max_delay): the two ends
Draws == {min_delay, max_delay}

\* the escalation stays once the fifth request is made
SmartDelaySticky(s, draw) ==
    LET request_count == s.request_count + 1
        base_delay == IF request_count >= 5 THEN (draw * 3) \div 2 ELSE draw
    IN  [s EXCEPT !.request_count = request_count,
                  !.draw = draw,
                  !.base_delay = base_delay,
                  !.slept = @ + base_delay]

\* F5BotRedditScraper._smart_delay
_smart_delay(s, draw) ==
    LET request_count == s.request_count + 1
        base_delay == IF request_count % 5 = 0 THEN (draw * 3) \div 2 ELSE draw
    IN  [s EXCEPT !.request_count = request_count,
                  !.draw = draw,
                  !.base_delay = base_delay,
                  !.slept = @ + base_delay]

\* the posts Reddit holds, as far as the scraper reads them
SearchPosts ==
    { [id |-> "a", url |-> "u", title |-> <<"c", "r", "m">>, content |-> <<>>,
       score |-> 0, num_comments |-> 0, matched_keywords |-> <<>>],
      [id |-> "b", url |-> "v", title |-> <<"H", "i">>, content |-> <<"a", "p", "i">>,
       score |-> 0, num_comments |-> 0, matched_keywords |-> <<>>] }

\* lines 196-203: the keywords of the batch found in title + " " + content
MatchedKeywords(post, batch) ==
    LET full_text == lower(post.title) \o <<" ">> \o lower(post.content)
        found == SelectSeq(batch, LAMBDA kw : kw.pad = 0 /\ Contains(full_text, lower(kw.text)))
    IN  [i \in 1..Len(found) |-> found[i].text]

\* lines 205-221: only posts with a matched keyword are returned
MatchedPosts(batch) ==
    { [post EXCEPT !.matched_keywords = MatchedKeywords(post, batch)] :
        post \in {q \in SearchPosts : MatchedKeywords(q, batch) # <<>>} }

\* what one request of a search method meets: 200 with some posts, 200 with
\* a body that does not parse (response.json() or ET.fromstring raises),
\* 429, 403 or another status, or a transport exception (status 0)
MethodOutcomes(batch) ==
    {[status |-> 200, body |-> "ok", posts |-> q] :
        q \in SeqsUpTo(MatchedPosts(batch), MaxReturned)}
      \cup {[status |-> 200, body |-> "malformed", posts |-> <<>>]}
      \cup {[status |-> st, body |-> "none", posts |-> <<>>] : st \in {429, 403, 0}}

\* time.sleep(15), lines 225 and 267
Cooldown == 60

\* the request is sent again once the cooldown is over
RetryAfterCooldown(o) ==
    [posts |-> IF o.status = 200 /\ o.body = "ok" THEN o.posts ELSE <<>>,
     cooldown |-> IF o.status = 429 THEN Cooldown ELSE 0,
     requests |-> IF o.status = 429 THEN 2 ELSE 1]

\* lines 186-232 and 260-272: one session.get, then the posts of a 200
\* response, the cooldown after a 429, [] for everything else
HandleResponse(o) ==
    [posts |-> IF o.status = 200 /\ o.body = "ok" THEN o.posts ELSE <<>>,
     cooldown |-> IF o.status = 429 THEN Cooldown ELSE 0,
     requests |-> 1]

\* the request did not give a parsed 200 response
MethodFailed(o) == o.status # 200 \/ o.body # "ok"

\* the exception of a failed request comes out of the search
MethodFailureRaises(next) == "raised"

\* lines 231-232 and 273-274 (except Exception in the method), and lines
\* 143-145 (except Exception ... continue in the loop): the search goes on
OnMethodFailure(next) == next

\* the loop never stops early
NeverReachedLimit(all_posts, limit) == FALSE

\* line 151: if len(all_posts) >= limit: break
ReachedLimit(all_posts, limit) == Len(all_posts) >= limit

\* one keyword; two keywords in one batch; thirteen keywords, which make
\* two batches
SearchKeywordLists ==
    { <<>>,
      <<Kw(Str_CRM, 0)>>,
      <<Kw(Str_CRM, 0), Kw(Str_api, 0)>>,
      <<Kw(Str_CRM, 0)>> \o [i \in 1..11 |-> Kw(<<"x">>, i)] \o <<Kw(Str_api, 0)>> }

SearchLimits == {1, 100}

NoSearch ==
    [request_count |-> 0,       \* self.request_count
     draw |-> 0,                \* the last random.uniform value
     base_delay |-> 0,          \* the last time.sleep(base_delay)
     slept |-> 0,               \* sum of the base_delay slept so far
     calls |-> 0,               \* search method calls made so far
     at |-> "idle",
     keyword_batches |-> <<>>, batch_num |-> 0,
     batch_posts |-> <<>>, all_posts |-> <<>>,
     first |-> "none",          \* what _search_via_json_api did for this batch
     feed_called |-> FALSE,     \* _search_via_rss_feeds was called for it
     status |-> 0,              \* the status the last method call met
     cooldown |-> 0,            \* the cooldown it slept
     requests |-> [json |-> 0, rss |-> 0],   \* HTTP requests made for this batch
     failed |-> 0,              \* method calls of this search that failed
     gathered |-> {},           \* ids of the posts its 200 responses held
     result |-> <<>>]

InitSearch ==
    /\ keywords \in KeywordTables
    /\ api_key = FALSE
    /\ global_leads = <<>>
    /\ business_leads = {}
    /\ pc = [p \in Proc |-> "off"]
    /\ leads = NoLocal
    /\ bi = [p \in Proc |-> 0]
    /\ matching = NoLocal
    /\ analyzed = NoLocal
    /\ qualified = {}
    /\ cyc = [p \in Proc |-> NoHistory]
    /\ call = [keywords |-> <<>>, limit |-> 100]
    /\ ret = NoSearch

\* search_reddit_for_keywords, lines 106-124
SearchRedditForKeywords ==
    /\ ret.at \in {"idle", "raised"}
    /\ ret.request_count < MaxRequests
    /\ \E kws \in SearchKeywordLists, limit \in SearchLimits :
         /\ call' = [keywords |-> kws, limit |-> limit]
         /\ ret' = IF kws = <<>>
                   THEN [ret EXCEPT !.at = "idle", !.result = <<>>,
                                    !.failed = 0, !.gathered = {}]
                   ELSE [ret EXCEPT !.at = "json",
                                    !.keyword_batches = _split_keywords_into_batches(kws),
                                    !.batch_num = 1,
                                    !.batch_posts = <<>>, !.all_posts = <<>>,
                                    !.first = "none", !.feed_called = FALSE,
                                    !.failed = 0, !.gathered = {},
                                    !.result = <<>>]
    /\ UNCHANGED <<keywords, api_key, global_leads, business_leads, pc, leads, bi,
                   matching, analyzed, qualified, cyc>>

\* lines 131-145 with search_method = _search_via_json_api (lines 162-237)
SearchViaJsonApi ==
    /\ ret.at = "json"
    /\ \E o \in MethodOutcomes(ret.keyword_batches[ret.batch_num]), draw \in Draws :
         LET r == HandleResponse(o)
         IN  ret' = [_smart_delay(ret, draw) EXCEPT
                       !.calls = @ + 1,
                       !.batch_posts = @ \o r.posts,
                       !.first = IF o.status # 200 THEN "rejected"
                                 ELSE IF r.posts = <<>> THEN "empty" ELSE "posts",
                       !.status = o.status,
                       !.cooldown = r.cooldown,
                       !.requests.json = @ + r.requests,
                       !.failed = IF MethodFailed(o) THEN @ + 1 ELSE @,
                       !.gathered = @ \cup {r.posts[i].id : i \in 1..Len(r.posts)},
                       !.at = IF MethodFailed(o) THEN OnMethodFailure("rss") ELSE "rss"]
    /\ UNCHANGED <<keywords, api_key, global_leads, business_leads, pc, leads, bi,
                   matching, analyzed, qualified, cyc, call>>

\* lines 131-145 with search_method = _search_via_rss_feeds (lines 239-279)
SearchViaRssFeeds ==
    /\ ret.at = "rss"
    /\ \E o \in MethodOutcomes(ret.keyword_batches[ret.batch_num]), draw \in Draws :
         LET r == HandleResponse(o)
         IN  ret' = [_smart_delay(ret, draw) EXCEPT
                       !.calls = @ + 1,
                       !.batch_posts = @ \o r.posts,
                       !.feed_called = TRUE,
                       !.status = o.status,
                       !.cooldown = r.cooldown,
                       !.requests.rss = @ + r.requests,
                       !.failed = IF MethodFailed(o) THEN @ + 1 ELSE @,
                       !.gathered = @ \cup {r.posts[i].id : i \in 1..Len(r.posts)},
                       !.at = IF MethodFailed(o) THEN OnMethodFailure("batch") ELSE "batch"]
    /\ UNCHANGED <<keywords, api_key, global_leads, business_leads, pc, leads, bi,
                   matching, analyzed, qualified, cyc, call>>

\* lines 147-153: the batch is added, the loop goes on or stops
EndOfBatch ==
    /\ ret.at = "batch"
    /\ LET all_posts == ret.all_posts \o ret.batch_posts
       IN  ret' = IF ReachedLimit(all_posts, call.limit)
                     \/ ret.batch_num = Len(ret.keyword_batches)
                  THEN [ret EXCEPT !.all_posts = all_posts, !.at = "return",
                                   !.status = 0, !.cooldown = 0]
                  ELSE [ret EXCEPT !.all_posts = all_posts,
                                   !.batch_num = @ + 1,
                                   !.batch_posts = <<>>,
                                   !.first = "none", !.feed_called = FALSE,
                                   !.status = 0, !.cooldown = 0,
                                   !.requests = [json |-> 0, rss |-> 0],
                                   !.at = "json"]
    /\ UNCHANGED <<keywords, api_key, global_leads, business_leads, pc, leads, bi,
                   matching, analyzed, qualified, cyc, call>>

\* lines 155-160
ReturnPosts ==
    /\ ret.at = "return"
    /\ LET unique_posts == _filter_by_keywords_relevance(_deduplicate_posts(ret.all_posts))
       IN  ret' = [ret EXCEPT !.result = SubSeq(unique_posts, 1, Min(call.limit, Len(unique_posts))),
                              !.at = "idle",
                              !.keyword_batches = <<>>, !.batch_num = 0,
                              !.batch_posts = <<>>, !.all_posts = <<>>,
                              !.first = "none", !.feed_called = FALSE,
                              !.requests = [json |-> 0, rss |-> 0]]
    /\ UNCHANGED <<keywords, api_key, global_leads, business_leads, pc, leads, bi,
                   matching, analyzed, qualified, cyc, call>>

NextSearch ==
    \/ SearchRedditForKeywords
    \/ SearchViaJsonApi
    \/ SearchViaRssFeeds
    \/ EndOfBatch
    \/ ReturnPosts

SearchSpec == InitSearch /\ [][NextSearch]_vars

\* the request counter is the number of search method calls; the delay of
\* call k is the draw times 1.5 where k is a multiple of 5, the draw otherwise
C16_CounterAndDelay ==
    /\ ret.request_count = ret.calls
    /\ ret.request_count > 0 =>
         /\ ret.draw \in Draws
         /\ ret.base_delay = IF ret.request_count % 5 = 0
                             THEN (ret.draw * 3) \div 2
                             ELSE ret.draw

\* every call adds its delay to the time slept, which never decreases
C16_DelayAdds ==
    /\ ret'.slept >= ret.slept
    /\ ret'.calls # ret.calls =>
         /\ ret'.calls = ret.calls + 1
         /\ ret'.slept = ret.slept + ret'.base_delay

\* C16: after M search method calls on one scraper the request counter is M,
\* the cumulative pacing delay never decreases, and the delay of call k is
\* the draw multiplied by 1.5 exactly when k is a multiple of 5; the
\* escalation of one call is not carried to the next.
C16_Pacing == []C16_CounterAndDelay /\ [][C16_DelayAdds]_vars

\* the tenth call has slept 1.5 times the largest draw, and the ten calls
\* together the least they can: eight smallest draws, and two escalated
C16_Witness ==
    /\ ret.request_count = 10
    /\ ret.draw = max_delay
    /\ ret.base_delay = 42
    /\ ret.slept = 8 * min_delay + 18 + 42

\* C17: in every batch the structured query (JSON API) comes first, and the
\* feed (RSS) is called only when the structured query returned no posts or
\* was rejected: never after it returned a post.
C17_FeedOnlyAsFallback ==
    /\ ret.feed_called => ret.first # "none"
    /\ ret.first = "posts" => ~ret.feed_called

(***************************************************************************)
(* Properties of the save loop, the store and the analyzer.                *)
(***************************************************************************)
\* the businesses table as a set
BusinessIds == {businesses[i] : i \in 1..Len(businesses)}

\* C24: when two overlapping cycles both qualify one global lead for one
\* business, the store never holds two business_leads rows of the pair; the
\* insert that comes second leaves the table as it is, raises nothing, and
\* its cycle goes on with the next lead: no cycle ends there.
C24_OneRowPerPair ==
    \A r1, r2 \in business_leads :
        (r1.business_id = r2.business_id /\ r1.global_lead_id = r2.global_lead_id) => r1 = r2

C24_LoserGoesOn ==
    \A p \in Proc :
        (/\ SaveStep(p)
         /\ Head(analyzed[p]).ptype = "num"
         /\ Head(analyzed[p]).probability >= 60
         /\ HasRow(businesses[bi[p]], Head(analyzed[p]).id)
         /\ <<businesses[bi[p]], Head(analyzed[p]).id>> \notin cyc'[p].store_failed) =>
            /\ business_leads' = business_leads
            /\ cyc'[p].failed = cyc[p].failed
            /\ pc'[p] = (IF Tail(analyzed[p]) # <<>> THEN "save"
                         ELSE NextBatch(p, matching[p]).pc)
            /\ \A q \in Proc \ {p} : pc'[q] = pc[q] /\ cyc'[q] = cyc[q]

C24_OverlapKeepsOneRow == []C24_OneRowPerPair /\ [][C24_LoserGoesOn]_vars

\* both cycles were answered a score >= 60 for one pair, both have come to
\* their summary without a failure, and the pair has its one row
C24_Witness ==
    /\ pc["service"] = "summary" /\ pc["once"] = "summary"
    /\ ~cyc["service"].failed /\ ~cyc["once"].failed
    /\ \E s \in cyc["service"].expect, o \in cyc["once"].expect :
         /\ s[1] = o[1] /\ s[2] = o[2] /\ s[3] # o[3]
         /\ Cardinality({row \in business_leads :
                           row.business_id = s[1] /\ row.global_lead_id = s[2]}) = 1

\* C26: a global lead with a business_leads row of business b is not among
\* the unprocessed leads of b, is in no later cycle fetched or about to be
\* sent to the analyzer for b, and is among the unprocessed leads of every
\* business without a row for it.
C26_UnprocessedIsWithoutRow ==
    /\ \A b \in BusinessIds : \A i \in 1..Len(global_leads) :
          LET g == global_leads[i].id
              unprocessed == Ids(get_unprocessed_leads_for_business(b))
          IN  HasRow(b, g) <=> ~(\E k \in 1..Len(unprocessed) : unprocessed[k] = g)
    /\ \A p \in Proc :
          pc[p] = "batch" =>
              \A i \in 1..Len(matching[p]) : ~HasRow(businesses[bi[p]], matching[p][i])

C26_FetchStep ==
    \A p \in Proc :
        (pc[p] = "tenant" /\ pc'[p] = "batch") =>
            /\ matching'[p] # <<>>
            /\ \A i \in 1..Len(matching'[p]) :
                  /\ ~HasRow(businesses[bi[p]], matching'[p][i])
                  /\ LeadMatches(global_leads[matching'[p][i]], keyword_list(businesses[bi[p]]))
            /\ \A i \in 1..Len(global_leads) :
                  (/\ ~HasRow(businesses[bi[p]], global_leads[i].id)
                   /\ LeadMatches(global_leads[i], keyword_list(businesses[bi[p]]))) =>
                      \E k \in 1..Len(matching'[p]) : matching'[p][k] = global_leads[i].id

C26_ProcessedOnce == []C26_UnprocessedIsWithoutRow /\ [][C26_FetchStep]_vars

\* a later cycle has fetched the leads of business 1: a lead with a row of
\* business 1 is not among them, and is unprocessed for business 3, whose
\* keywords it matches
C26_Witness ==
    /\ pc["service"] = "batch" /\ bi["service"] = 1
    /\ \E row \in business_leads :
         /\ row.business_id = 1
         /\ \A i \in 1..Len(matching["service"]) : matching["service"][i] # row.global_lead_id
         /\ ~HasRow(3, row.global_lead_id)
         /\ LeadMatches(global_leads[row.global_lead_id], keyword_list(3))
         /\ \E k \in 1..Len(get_unprocessed_leads_for_business(3)) :
              get_unprocessed_leads_for_business(3)[k].id = row.global_lead_id

\* C27: in the save loop a result with a null or non-numeric probability
\* leaves the results after it in the batch to be saved: those with a
\* numeric probability >= 60 are still persisted.
C27_SaveStep ==
    \A p \in Proc :
        (SaveStep(p) /\ Head(analyzed[p]).ptype # "num") =>
            \A i \in 2..Len(analyzed[p]) :
                (analyzed[p][i].ptype = "num" /\ analyzed[p][i].probability >= 60) =>
                    \E k \in 1..Len(analyzed'[p]) : analyzed'[p][k] = analyzed[p][i]

C27_NullKeepsTheRest == [][C27_SaveStep]_vars

\* C28: for a response that holds a JSON array, whatever its elements are,
\* the call does not raise and returns one result per lead in input order.
C28_ArrayNeverRaises ==
    (Analyzed /\ call.outcome.kind = "ok" /\ HoldsJsonArray(call.outcome.content)) =>
        /\ ~ret.raised
        /\ Len(ret.results) = Len(call.leads)
        /\ \A i \in 1..Len(call.leads) : ret.results[i].id = call.leads[i]

\* C30: without an API key no HTTP request is issued, every analysed lead
\* has probability 50, no business_leads row is ever written, and every
\* stored lead stays unprocessed for every business.
C30_NoKeyNoRow ==
    ~api_key =>
        /\ business_leads = {}
        /\ \A p \in Proc :
              /\ cyc[p].requests = 0
              /\ \A i \in 1..Len(analyzed[p]) :
                    analyzed[p][i].ptype = "num" /\ analyzed[p][i].probability = 50
        /\ \A b \in BusinessIds :
              Ids(get_unprocessed_leads_for_business(b)) = Ids(Reverse(global_leads))

\* a cycle without a key has analysed every matching lead of businesses 1
\* and 3 and has come to its summary with no row written
C30_Witness ==
    /\ ~api_key
    /\ pc["service"] = "summary"
    /\ Len(global_leads) = 3
    /\ Cardinality(qualified) = 4
    /\ ~cyc["service"].failed
    /\ business_leads = {}

(***************************************************************************)
(* KeywordsSpec: LeadScrapingService._get_all_unique_keywords over stores  *)
(* whose businesses wrote one keyword in several ways.                     *)
(***************************************************************************)
MaxRows == 2

\* one keyword in upper, mixed and lower case and with a space before it,
\* another keyword, and one too short to be searched for
StoredKeywords ==
    {Str_CRM, Str_Crm, <<"c", "r", "m">>, <<" ", "c", "r", "m">>, Str_api, <<"a">>}

InitKeywords ==
    /\ keywords \in SeqsUpTo([business_id : {1, 3}, keyword : StoredKeywords], MaxRows)
    /\ api_key = FALSE
    /\ global_leads = <<>>
    /\ business_leads = {}
    /\ pc = [p \in Proc |-> "off"]
    /\ leads = NoLocal
    /\ bi = [p \in Proc |-> 0]
    /\ matching = NoLocal
    /\ analyzed = NoLocal
    /\ qualified = {}
    /\ cyc = [p \in Proc |-> NoHistory]
    /\ call = NoCall
    /\ ret = [done |-> FALSE, final_keywords |-> <<>>]

\* lines 159-198: the list returned, [] where the store raises
GetAllUniqueKeywords ==
    /\ ~ret.done
    /\ \E kws \in UniqueKeywordLists \cup {<<>>} :
         ret' = [done |-> TRUE, final_keywords |-> kws]
    /\ UNCHANGED <<keywords, api_key, global_leads, business_leads, pc, leads, bi,
                   matching, analyzed, qualified, cyc, call>>

KeywordsSpec == InitKeywords /\ [][GetAllUniqueKeywords]_vars

\* C23: every keyword _get_all_unique_keywords returns is trimmed and in
\* lower case, and no two of them are equal once trimmed and lower-cased.
C23_KeywordsNormalized ==
    ret.done =>
        /\ \A i \in 1..Len(ret.final_keywords) :
              ret.final_keywords[i] = Trim(lower(ret.final_keywords[i]))
        /\ \A i, j \in 1..Len(ret.final_keywords) :
              Trim(lower(ret.final_keywords[i])) = Trim(lower(ret.final_keywords[j])) => i = j

\* C21: in one search each method makes at most one HTTP request for a
\* batch, whatever the status; after a 429 it sleeps the cooldown of 15
\* seconds, adds no post to the batch, and makes no further request.
C21_OneRequest ==
    /\ ret.requests.json <= 1 /\ ret.requests.rss <= 1
    /\ ret.at = "rss" => ret.requests = [json |-> 1, rss |-> 0]
    /\ ret.at = "batch" => ret.requests = [json |-> 1, rss |-> 1]
    /\ ret.cooldown = (IF ret.status = 429 THEN 60 ELSE 0)

C21_MethodStep ==
    (ret'.calls # ret.calls) =>
        /\ ret'.requests.json + ret'.requests.rss
              = ret.requests.json + ret.requests.rss + 1
        /\ ret'.status = 429 =>
              /\ ret'.cooldown = 60
              /\ ret'.batch_posts = ret.batch_posts
              /\ ret'.gathered = ret.gathered
              /\ ret'.at = (IF ret.at = "json" THEN "rss" ELSE "batch")

C21_OneRequestPerBatch == []C21_OneRequest /\ [][C21_MethodStep]_vars

\* both methods were answered 429 for the one batch of a search: two
\* requests, no post, and the search is about to return
C21_Witness ==
    /\ ret.at = "batch"
    /\ ret.status = 429 /\ ret.first = "rejected"
    /\ ret.failed = 2
    /\ ret.requests = [json |-> 1, rss |-> 1]
    /\ ret.batch_posts = <<>>
    /\ Len(ret.keyword_batches) = 1

\* C22: whatever the two methods meet for a batch (429, 403, another
\* status, a body that does not parse, a transport exception), the search
\* does not raise, goes on to the other method and to every later batch
\* until the limit is reached, and returns the posts its 200 responses held.
C22_NoRaise ==
    /\ ret.at # "raised"
    /\ ret.at = "idle" =>
          /\ \A i \in 1..Len(ret.result) : ret.result[i].id \in ret.gathered
          /\ Cardinality(ret.gathered) <= call.limit =>
                \A id \in ret.gathered : \E i \in 1..Len(ret.result) : ret.result[i].id = id

C22_GoesOn ==
    /\ (ret.at = "json" /\ ret'.calls # ret.calls) => ret'.at = "rss"
    /\ (ret.at = "rss" /\ ret'.calls # ret.calls) => ret'.at = "batch"
    /\ (/\ ret.at = "batch" /\ ret'.at # "batch"
        /\ ret.batch_num < Len(ret.keyword_batches)
        /\ Len(ret.all_posts) + Len(ret.batch_posts) < call.limit) =>
            /\ ret'.at = "json"
            /\ ret'.batch_num = ret.batch_num + 1
            /\ ret'.all_posts = ret.all_posts \o ret.batch_posts

C29_Limit ==
    /\ ret.at \in {"json", "rss"} => Len(ret.all_posts) < call.limit
    /\ Len(ret.result) <= call.limit

C29_BreakStep ==
    (/\ ret.at = "batch" /\ ret'.at # "batch"
     /\ Len(ret.all_posts) + Len(ret.batch_posts) >= call.limit) =>
        /\ ret'.at = "return"
        /\ ret'.calls = ret.calls

C29_LimitStopsTheSearch == []C29_Limit /\ [][C29_BreakStep]_vars

\* with limit 1 the first of two batches gave two posts: the second batch
\* is not sent, and one post will be returned
C29_Witness ==
    /\ ret.at = "return"
    /\ call.limit = 1
    /\ Len(ret.keyword_batches) = 2 /\ ret.batch_num = 1
    /\ Len(ret.all_posts) = 2

(***************************************************************************)
(* SchedSpec: run_service (background_service.py, lines 359-387): the job  *)
(* scheduled every interval, the cycle at startup, the loop of             *)
(* schedule.run_pending() and time.sleep(30).  ret holds the position of   *)
(* the process and the scheduler; time is counted in sleeps of 30 seconds. *)
(***************************************************************************)
MaxTime == 12

\* interval_minutes, in sleeps of 30 seconds (120 minutes are 240 of them)
Interval == 2

NoSchedule ==
    [at |-> "start",
     now |-> 0,                 \* the clock
     next_run |-> 0,            \* when the scheduled job is due
     running |-> 0,             \* calls of scrape_and_process_leads in progress
     startup_done |-> FALSE,    \* the cycle of line 375 has returned
     late |-> FALSE]            \* the job came due while a cycle was running

InitSched ==
    /\ keywords \in KeywordTables
    /\ api_key = FALSE
    /\ global_leads = <<>>
    /\ business_leads = {}
    /\ pc = [p \in Proc |-> "off"]
    /\ leads = NoLocal
    /\ bi = [p \in Proc |-> 0]
    /\ matching = NoLocal
    /\ analyzed = NoLocal
    /\ qualified = {}
    /\ cyc = [p \in Proc |-> NoHistory]
    /\ call = NoCall
    /\ ret = NoSchedule

\* the job is started in a thread of its own and the loop goes on
RunJobInThread(s) ==
    [s EXCEPT !.running = @ + 1, !.next_run = s.now + Interval, !.at = "sleep"]

\* schedule.run_pending() calls the job function: the loop waits in it
RunJob(s) == [s EXCEPT !.running = @ + 1, !.at = "job"]

\* lines 371-375: schedule.every(...).do(...), then the cycle at startup
ScheduleAndStart ==
    /\ ret.at = "start"
    /\ ret' = [ret EXCEPT !.next_run = ret.now + Interval,
                          !.running = @ + 1,
                          !.at = "startup"]
    /\ UNCHANGED <<keywords, api_key, global_leads, business_leads, pc, leads, bi,
                   matching, analyzed, qualified, cyc, call>>

\* scrape_and_process_leads is at work (requests, pacing sleeps): time passes
CycleTakesTime ==
    /\ ret.at \in {"startup", "job"}
    /\ ret.now < MaxTime
    /\ ret' = [ret EXCEPT !.now = @ + 1,
                          !.late = @ \/ (ret.at = "startup" /\ ret.now + 1 >= ret.next_run)]
    /\ UNCHANGED <<keywords, api_key, global_leads, business_leads, pc, leads, bi,
                   matching, analyzed, qualified, cyc, call>>

\* scrape_and_process_leads returns: to line 379 after the startup cycle,
\* to the scheduler, which sets the next run, after a scheduled one
CycleReturns ==
    /\ ret.at \in {"startup", "job"}
    /\ ret' = IF ret.at = "startup"
              THEN [ret EXCEPT !.running = @ - 1, !.startup_done = TRUE, !.at = "pending"]
              ELSE [ret EXCEPT !.running = @ - 1, !.late = FALSE,
                               !.next_run = ret.now + Interval, !.at = "sleep"]
    /\ UNCHANGED <<keywords, api_key, global_leads, business_leads, pc, leads, bi,
                   matching, analyzed, qualified, cyc, call>>

\* line 380: schedule.run_pending()
RunPending ==
    /\ ret.at = "pending"
    /\ ret' = IF ret.now >= ret.next_run THEN RunJob(ret) ELSE [ret EXCEPT !.at = "sleep"]
    /\ UNCHANGED <<keywords, api_key, global_leads, business_leads, pc, leads, bi,
                   matching, analyzed, qualified, cyc, call>>

\* line 381: time.sleep(30)
Sleep ==
    /\ ret.at = "sleep"
    /\ ret.now < MaxTime
    /\ ret' = [ret EXCEPT !.now = @ + 1, !.at = "pending"]
    /\ UNCHANGED <<keywords, api_key, global_leads, business_leads, pc, leads, bi,
                   matching, analyzed, qualified, cyc, call>>

NextSched ==
    \/ ScheduleAndStart
    \/ CycleTakesTime
    \/ CycleReturns
    \/ RunPending
    \/ Sleep

SchedSpec == InitSched /\ [][NextSched]_vars

\* C25: in one service process at most one cycle is in progress at a time:
\* the scheduling loop begins only when the startup cycle has returned, and
\* a job that came due while a cycle was running is started only after
\* that cycle has returned.
C25_OneCycle ==
    /\ ret.running <= 1
    /\ ret.running = 1 <=> ret.at \in {"startup", "job"}
    /\ ret.at \in {"pending", "sleep", "job"} => ret.startup_done

C25_StartStep == ret'.running > ret.running => ret.running = 0

C25_OneCycleAtATime == []C25_OneCycle /\ [][C25_StartStep]_vars

\* the startup cycle ran longer than the interval: the job that came due
\* meanwhile is running now, as the only cycle, after the startup cycle
C25_Witness ==
    /\ ret.at = "job"
    /\ ret.late
    /\ ret.startup_done
    /\ ret.running = 1
    /\ ret.now > ret.next_run

====
